---- MODULE Spec2Model ----
(***************************************************************************)
(* Model of the meeting-recording agent (src/recordings): the recording    *)
(* bot, its peer connections, the per-track recorder tasks, the encoder    *)
(* subprocesses and the stop-time composition pipeline of RecordingManager.*)
(* One asyncio event loop runs everything, so every action below is the    *)
(* code between two suspension points (await) of one coroutine.            *)
(***************************************************************************)
EXTENDS Integers, Sequences, FiniteSets, TLC

(* ------------------------------ bounds -------------------------------- *)
MaxConns == 2      \* peer connections ever created
MaxTasks == 2      \* track events ever delivered (each starts at most one recorder task)
MaxFrames == 1     \* frames a writer appends after its first frame, and frames a
                   \* video task receives without writing them
MaxStarts == 3     \* start_recording calls made on one manager
MaxCalls == 3      \* calls of send, create_peer and handle_signal started

(* -------------------------- program constants ------------------------- *)
AudioFloor == 44           \* os.path.getsize(fname) > 44
VideoFloor == 1024         \* os.path.getsize(fname) > 1024
WavHeader == 44            \* header written by the wave module
SampleBytes == 2           \* setsampwidth(2)
AudioSlots == 1            \* addTransceiver('audio') once per connection
VideoSlots == 2            \* addTransceiver('video') twice per connection
MathImported == FALSE      \* recording_manager.py imports no math module

(* ------------------------------ inputs -------------------------------- *)
Peers == {"p1", "p2"}
\* peer ids are names: the first peer ever seen is called p1
PeerOrder == [p \in Peers |-> IF p = "p2" THEN {"p1"} ELSE {}]
ClockValues == {0, 1}                 \* values of int(time.time())
Calls == {1, 2}                       \* /stop-recording requests for the bot
Labels == {""}                        \* track.label of a remote track
AllLabels == {"", "screen", "display", "share"}
SampleCounts == {0, 1}                \* samples in one audio frame
VideoSizes == {0, VideoFloor, VideoFloor + 1}   \* bytes the encoder leaves (0: no file)

(* ------------------------------ values -------------------------------- *)
NoFile == [ext |-> "none", user |-> "", type |-> "", tid |-> 0, ts |-> 0]
AudioFileName(user, ts) ==
    [ext |-> "wav", user |-> user, type |-> "audio", tid |-> 0, ts |-> ts]
VideoFileName(user, key) ==
    [ext |-> "mkv", user |-> user, type |-> key.type, tid |-> key.id, ts |-> 0]
MixedFileName(ts) ==
    [ext |-> "mixed_wav", user |-> "", type |-> "", tid |-> 0, ts |-> ts]
FinalFileName(ts) ==
    [ext |-> "final_mp4", user |-> "", type |-> "", tid |-> 0, ts |-> ts]

AudioKey == [type |-> "audio", id |-> 0]
TrackKey(track_type, tid) == [type |-> track_type, id |-> tid]

NoResult == [tag |-> "none", msg |-> "", path |-> NoFile]
Msg(m) == [tag |-> "msg", msg |-> m, path |-> NoFile]
Path(f) == [tag |-> "path", msg |-> "", path |-> f]
Raised(e) == [tag |-> "raised", msg |-> e, path |-> NoFile]

NotRecordingMsg == Msg("No recording was active.")
NoUsableMsg == Msg("Recording failed: No usable audio or video files captured.")
MixFailedMsg == Msg("Recording failed: Could not mix audio tracks.")
CompositionFailedMsg == Msg("Composition failed.")
InternalErrorMsg(e) == Msg(e)

VARIABLES
    is_recording,        \* RecordingManager.is_recording
    active_recordings,   \* RecordingManager.active_recordings: user -> key -> entry
    disk,                \* the output directory: file name -> size in bytes
    now,                 \* int(time.time())
    peers,               \* RTCPeerManager.peers: peer id -> connection
    conns,               \* every RTCPeerConnection created: [peer, state, stray],
                         \* stray: the tracks it delivered while nothing was recording
    tasks,               \* recorder tasks, one per create_task, each with its track
    procs,               \* encoder subprocesses spawned by video recorders
    started,             \* the start_recording calls made so far
    botPc,               \* position of each stop_and_cleanup call
    ret,                 \* value stop_recording_and_compose returned to each call
    stopPc,              \* position of the call that runs the stop pipeline
    stopCall,            \* the call that runs the pipeline
    stop_procs,          \* local `processes`
    audio_files,         \* local `audio_files`
    video_files,         \* local `video_files`
    mixed_audio_path,    \* local `mixed_audio_path`
    composed,            \* the (video inputs, audio input) _compose_video was called with
    ws,                  \* SignalingClient.ws: "none", or the socket with its transport
                         \* "open" or "closed"
    is_connected,        \* SignalingClient._is_connected
    listenPc,            \* position of the listen() task
    handler,             \* the create_peer call that is awaiting its offer
    wire,                \* the messages written to the transport
    calls,               \* calls of send, create_peer and handle_signal made so far
    last,                \* the last of these calls and what it did
    events,              \* on_connectionstatechange handlers scheduled or suspended
    active_bots,         \* main.active_bots: the room ids that have a bot
    routePc              \* positions of the /start-recording request and of the
                         \* connect_and_record task it creates

vars == <<is_recording, active_recordings, disk, now, peers, conns, tasks,
          procs, started, botPc, ret, stopPc, stopCall, stop_procs, audio_files,
          video_files, mixed_audio_path, composed, ws, is_connected, listenPc,
          handler, wire, calls, last, events, active_bots, routePc>>

botVars == <<peers, conns, started, botPc, ret>>
stopVars == <<stopPc, stopCall, stop_procs, audio_files, video_files,
              mixed_audio_path, composed>>
recVars == <<tasks, procs>>
ctlVars == <<events, active_bots, routePc>>
sigVars == <<ws, is_connected, listenPc, handler, wire, calls, last, ctlVars>>

(* ------------------------------ helpers ------------------------------- *)
Range(s) == {s[i] : i \in DOMAIN s}

\* d[k] = v, adding k to the dict when absent
DictPut(d, k, v) == [x \in DOMAIN d \cup {k} |-> IF x = k THEN v ELSE d[x]]

\* del d[k]
DictDel(d, ks) == [x \in DOMAIN d \ ks |-> d[x]]

EmptyDict == [x \in {} |-> 0]

Exists(f) == f \in DOMAIN disk
GetSize(f) == disk[f]

NoHandler == [pc |-> "none", conn |-> 0, task |-> "none"]
NoCall == [op |-> "none", peer |-> "", action |-> "", payload |-> "", result |-> ""]

\* SignalingClient.__init__, and no call made yet
SigInit ==
    /\ ws = "none"
    /\ is_connected = FALSE
    /\ listenPc = "idle"
    /\ handler = NoHandler
    /\ wire = <<>>
    /\ calls = 0
    /\ last = NoCall
    /\ events = {}
    /\ active_bots = {}
    /\ routePc = [start |-> "idle", connect |-> "none"]

Init ==
    /\ SigInit
    /\ is_recording = FALSE
    /\ active_recordings = EmptyDict
    /\ disk = EmptyDict
    /\ now = 0
    /\ peers = EmptyDict
    /\ conns = <<>>
    /\ tasks = <<>>
    /\ procs = <<>>
    /\ started = 0
    /\ botPc = [c \in Calls |-> "idle"]
    /\ ret = [c \in Calls |-> NoResult]
    /\ stopPc = "idle"
    /\ stopCall = 0
    /\ stop_procs = {}
    /\ audio_files = {}
    /\ video_files = {}
    /\ mixed_audio_path = NoFile
    /\ composed = [videos |-> {}, audio |-> NoFile, called |-> FALSE, proc |-> "none"]


\* int(time.time()) when it is read: the clock has moved on since the last
\* read, or it has not
TimeRead(t) == {t2 \in ClockValues : t2 = t \/ t2 = t + 1}

\* a start that flips the flag whatever it was
start_recording_toggle(rec) == ~rec

\* RecordingManager.start_recording
start_recording(rec) == IF ~rec THEN TRUE ELSE rec

\* RecordingBot.connect_and_record after connect() and the one-second sleep
StartRecording ==
    /\ started = 0
    /\ started' = 1
    /\ is_recording' = start_recording(is_recording)
    /\ UNCHANGED <<sigVars, active_recordings, disk, now, peers, conns, botPc, ret,
                   stopVars, recVars>>

\* RecordingManager.start_recording called again on the same manager
StartAgain ==
    /\ started >= 1 /\ started < MaxStarts
    /\ started' = started + 1
    /\ is_recording' = start_recording(is_recording)
    /\ UNCHANGED <<sigVars, active_recordings, disk, now, peers, conns, botPc, ret,
                   stopVars, recVars>>

(* ----------------------- peer connection manager ---------------------- *)
\* a new connection has delivered no track yet
NoStray == [audio |-> 0, video |-> 0]

\* track.recv() raises once the connection of the track is closed
TrackEnded(i) == conns[tasks[i].conn].state = "closed"

\* _on_signaling_message for a user_list naming p, and create_peer(p); the
\* state_lock keeps it apart from the closing loop of stop_and_cleanup
UserList(p) ==
    /\ \A q \in Peers : q \in PeerOrder[p] => \E k \in DOMAIN conns : conns[k].peer = q
    /\ p \notin DOMAIN peers
    /\ Len(conns) < MaxConns
    /\ conns' = Append(conns, [peer |-> p, state |-> "open", stray |-> NoStray])
    /\ peers' = DictPut(peers, p, Len(conns) + 1)
    /\ UNCHANGED <<sigVars, is_recording, active_recordings, disk, now, started, botPc, ret,
                   stopVars, recVars>>

\* on_connectionstatechange for a connection the remote side left:
\* closes and removes whatever entry the peer id has
RemoteClosed(c) ==
    /\ c \in DOMAIN conns
    /\ conns[c].state = "open"
    /\ LET p == conns[c].peer
           victim == IF p \in DOMAIN peers THEN {peers[p]} ELSE {}
       IN  /\ conns' = [k \in DOMAIN conns |->
                          IF k = c \/ k \in victim
                          THEN [conns[k] EXCEPT !.state = "closed"] ELSE conns[k]]
           /\ peers' = DictDel(peers, {p})
    /\ UNCHANGED <<sigVars, is_recording, active_recordings, disk, now, started, botPc, ret,
                   stopVars, recVars>>

(* ---------------------------- track intake ---------------------------- *)
\* the tracks of one kind connection c has delivered so far
Delivered(c, kind) ==
    Cardinality({i \in DOMAIN tasks : tasks[i].conn = c /\ tasks[i].kind = kind})
    + conns[c].stray[kind]

\* the track events delivered so far on all connections
DeliveredAll ==
    LET Sum[k \in 0..Len(conns)] ==
            IF k = 0 THEN 0 ELSE Sum[k - 1] + conns[k].stray.audio + conns[k].stray.video
    IN  Len(tasks) + Sum[Len(conns)]

IsScreenLabel(lbl) == lbl \in {"screen", "display", "share"}

NewTask(kind, user, key, c, file) ==
    [kind |-> kind, user |-> user, key |-> key, conn |-> c, file |-> file,
     pc |-> "first", proc |-> 0, open |-> FALSE, frames |-> 0]

\* RecordingManager.add_audio_track: the registry and the task list after the call
add_audio_track_reg(reg, rec, user) ==
    IF ~rec THEN reg
    ELSE IF user \notin DOMAIN reg THEN DictPut(reg, user, EmptyDict) ELSE reg

\* add_audio_track without the guard of lines 147-148
add_audio_track_unguarded(tk, rec, c, user, ts) ==
    Append(tk, NewTask("audio", user, AudioKey, c, AudioFileName(user, ts)))

add_audio_track_tasks(tk, rec, c, user, ts) ==
    IF ~rec THEN tk
    ELSE Append(tk, NewTask("audio", user, AudioKey, c, AudioFileName(user, ts)))

\* the track_type heuristics of add_video_track ("" stands for None)
ClassifyVideo(reg, user, lbl, track_type) ==
    IF track_type # "" THEN track_type
    ELSE IF IsScreenLabel(lbl) THEN "screenshare"
    ELSE IF \E k \in DOMAIN reg[user] : k.type \in {"video", "camera"}
         THEN "screenshare" ELSE "camera"

\* RecordingManager.add_video_track
add_video_track_reg(reg, rec, t, user, lbl, track_type) ==
    IF ~rec THEN reg
    ELSE LET r1 == IF user \notin DOMAIN reg THEN DictPut(reg, user, EmptyDict) ELSE reg
             key == TrackKey(ClassifyVideo(r1, user, lbl, track_type), t)
         IN  DictPut(r1, user,
                     DictPut(r1[user], key,
                             [filename |-> VideoFileName(user, key), process |-> 0]))

add_video_track_tasks(tk, reg, rec, c, t, user, lbl, track_type) ==
    IF ~rec THEN tk
    ELSE LET r1 == IF user \notin DOMAIN reg THEN DictPut(reg, user, EmptyDict) ELSE reg
             key == TrackKey(ClassifyVideo(r1, user, lbl, track_type), t)
         IN  Append(tk, NewTask("video", user, key, c, VideoFileName(user, key)))

\* the track_type RecordingBot._on_new_track passes to add_video_track
BotTrackType(lbl) == IF IsScreenLabel(lbl) THEN "screenshare" ELSE "camera"

Slots(kind) == IF kind = "audio" THEN AudioSlots ELSE VideoSlots

\* the "track" event of connection c, handled by RecordingBot._on_new_track;
\* the track id is the number of the recorder task the track gets
OnNewTrack(c, kind, lbl) ==
    /\ c \in DOMAIN conns
    /\ conns[c].state = "open"
    /\ DeliveredAll < MaxTasks
    /\ Delivered(c, kind) < Slots(kind)
    /\ conns' = IF is_recording THEN conns
                ELSE [conns EXCEPT ![c].stray[kind] = @ + 1]
    /\ LET t == Len(tasks) + 1
           user == conns[c].peer
       IN  IF kind = "audio"
           THEN /\ active_recordings' =
                      add_audio_track_reg(active_recordings, is_recording, user)
                /\ now' \in (IF is_recording THEN TimeRead(now) ELSE {now})
                /\ tasks' = add_audio_track_tasks(tasks, is_recording, c, user, now')
           ELSE /\ now' = now
                /\ active_recordings' =
                      add_video_track_reg(active_recordings, is_recording, t, user,
                                          lbl, BotTrackType(lbl))
                /\ tasks' = add_video_track_tasks(tasks, active_recordings,
                                                  is_recording, c, t, user, lbl,
                                                  BotTrackType(lbl))
    /\ UNCHANGED <<sigVars, is_recording, disk, procs, peers, started, botPc, ret, stopVars>>

(* --------------------------- audio recorder --------------------------- *)
AudioEntry(file) == [filename |-> file, process |-> 0]

\* wave.open(filename, "wb") and the first writeframesraw: header plus n samples
WavCreate(d, file, n) == DictPut(d, file, WavHeader + SampleBytes * n)

\* writeframesraw on the open file (a file removed meanwhile stays removed)
WavAppend(d, file, n) ==
    IF file \in DOMAIN d THEN DictPut(d, file, d[file] + SampleBytes * n) ELSE d

\* a first-frame wait whose TimeoutError nothing catches
FirstFrameTimeoutEscapes(t) == [t EXCEPT !.pc = "crashed"]

\* `except asyncio.TimeoutError` of the first-frame wait (lines 161-163 for
\* audio, line 300 for video): a message is printed and the task returns
FirstFrameTimeout(t) == [t EXCEPT !.pc = "timedout"]

\* a finally block that leaves the file as it is
CloseWavSkipped(t) == t

\* _writer, lines 246-252: the finally block closes the file it opened
CloseWav(t) == [t EXCEPT !.open = FALSE]

\* _writer: the first frame arrives within the 4 s wait; the file is opened,
\* the frame written and the entry stored (KeyError when the user's dict is
\* gone: caught by `except Exception`, the finally block closes the file)
AudioFirstFrame(i, n) ==
    /\ i \in DOMAIN tasks
    /\ tasks[i].kind = "audio" /\ tasks[i].pc = "first"
    /\ ~TrackEnded(i)
    /\ disk' = WavCreate(disk, tasks[i].file, n)
    /\ IF tasks[i].user \in DOMAIN active_recordings
       THEN /\ active_recordings' =
                  DictPut(active_recordings, tasks[i].user,
                          DictPut(active_recordings[tasks[i].user], AudioKey,
                                  AudioEntry(tasks[i].file)))
            /\ tasks' = [tasks EXCEPT ![i].pc = "loop", ![i].open = TRUE]
       ELSE /\ active_recordings' = active_recordings
            /\ tasks' = [tasks EXCEPT ![i] = CloseWav([@ EXCEPT !.pc = "done", !.open = TRUE])]
    /\ UNCHANGED <<sigVars, is_recording, now, procs, botVars, stopVars>>

\* _writer: asyncio.TimeoutError on the first frame
AudioFirstTimeout(i) ==
    /\ i \in DOMAIN tasks
    /\ tasks[i].kind = "audio" /\ tasks[i].pc = "first"
    /\ tasks' = [tasks EXCEPT ![i] = FirstFrameTimeout(@)]
    /\ UNCHANGED <<sigVars, is_recording, active_recordings, disk, now, procs, botVars, stopVars>>

\* _writer: track.recv() raises while waiting for the first frame
AudioFirstEnded(i) ==
    /\ i \in DOMAIN tasks
    /\ tasks[i].kind = "audio" /\ tasks[i].pc = "first"
    /\ TrackEnded(i)
    /\ tasks' = [tasks EXCEPT ![i].pc = "done"]
    /\ UNCHANGED <<sigVars, is_recording, active_recordings, disk, now, procs, botVars, stopVars>>

\* _writer loop: one more frame is appended
AudioFrame(i, n) ==
    /\ i \in DOMAIN tasks
    /\ tasks[i].kind = "audio" /\ tasks[i].pc = "loop"
    /\ ~TrackEnded(i)
    /\ tasks[i].frames < MaxFrames
    /\ disk' = WavAppend(disk, tasks[i].file, n)
    /\ tasks' = [tasks EXCEPT ![i].frames = @ + 1]
    /\ UNCHANGED <<sigVars, is_recording, active_recordings, now, procs, botVars, stopVars>>

\* _writer loop: track.recv() raises, the loop breaks, finally closes the file
AudioEnded(i) ==
    /\ i \in DOMAIN tasks
    /\ tasks[i].kind = "audio" /\ tasks[i].pc = "loop"
    /\ TrackEnded(i)
    /\ tasks' = [tasks EXCEPT ![i] = CloseWav([@ EXCEPT !.pc = "done", !.frames = 0])]
    /\ UNCHANGED <<sigVars, is_recording, active_recordings, disk, now, procs, botVars, stopVars>>

(* --------------------------- video recorder --------------------------- *)
VideoEntry(file, n) == [filename |-> file, process |-> n]

\* _start_video_recording_dynamic: the first frame arrives within 5 s and
\* create_subprocess_exec is awaited
VideoFirstFrame(i) ==
    /\ i \in DOMAIN tasks
    /\ tasks[i].kind = "video" /\ tasks[i].pc = "first"
    /\ ~TrackEnded(i)
    /\ tasks' = [tasks EXCEPT ![i].pc = "spawn"]
    /\ UNCHANGED <<sigVars, is_recording, active_recordings, disk, now, procs, botVars, stopVars>>

\* _start_video_recording_dynamic: asyncio.TimeoutError, the only exception caught
VideoFirstTimeout(i) ==
    /\ i \in DOMAIN tasks
    /\ tasks[i].kind = "video" /\ tasks[i].pc = "first"
    /\ tasks' = [tasks EXCEPT ![i] = FirstFrameTimeout(@)]
    /\ UNCHANGED <<sigVars, is_recording, active_recordings, disk, now, procs, botVars, stopVars>>

\* _start_video_recording_dynamic: track.recv() raises on the first frame,
\* which nothing catches: the task ends with the exception
VideoFirstEnded(i) ==
    /\ i \in DOMAIN tasks
    /\ tasks[i].kind = "video" /\ tasks[i].pc = "first"
    /\ TrackEnded(i)
    /\ tasks' = [tasks EXCEPT ![i].pc = "crashed"]
    /\ UNCHANGED <<sigVars, is_recording, active_recordings, disk, now, procs, botVars, stopVars>>

\* _start_video_recording_dynamic: the encoder is spawned, the entry replaced by
\* one holding the process (KeyError when the user's dict is gone ends the task
\* with the pipe left open), and the first frame is written
VideoSpawned(i) ==
    /\ i \in DOMAIN tasks
    /\ tasks[i].kind = "video" /\ tasks[i].pc = "spawn"
    /\ LET n == Len(procs) + 1
       IN  /\ procs' = Append(procs, [file |-> tasks[i].file, stdin |-> "open",
                                      returncode |-> "none"])
           /\ IF tasks[i].user \in DOMAIN active_recordings
              THEN /\ active_recordings' =
                         DictPut(active_recordings, tasks[i].user,
                                 DictPut(active_recordings[tasks[i].user], tasks[i].key,
                                         VideoEntry(tasks[i].file, n)))
                   /\ tasks' = [tasks EXCEPT ![i].pc = "loop", ![i].proc = n]
              ELSE /\ active_recordings' = active_recordings
                   /\ tasks' = [tasks EXCEPT ![i].pc = "crashed", ![i].proc = n]
    /\ UNCHANGED <<sigVars, is_recording, disk, now, botVars, stopVars>>

\* _start_video_recording_dynamic: create_subprocess_exec raises (no encoder)
VideoSpawnFailed(i) ==
    /\ i \in DOMAIN tasks
    /\ tasks[i].kind = "video" /\ tasks[i].pc = "spawn"
    /\ tasks' = [tasks EXCEPT ![i].pc = "crashed"]
    /\ UNCHANGED <<sigVars, is_recording, active_recordings, disk, now, procs, botVars, stopVars>>

\* process.stdin.close() unless it is closing already
CloseStdin(ps, n) == [ps EXCEPT ![n].stdin = "closed"]

\* _pipe_media_to_ffmpeg loop: a frame arrives. With the pipe closing the
\* write is skipped (line 332) and the loop goes on, the task counting in
\* `frames` the frames it received and did not write; with the encoder alive
\* the frame is written; with the encoder gone the write raises and finally
\* closes the pipe
VideoFrame(i) ==
    /\ i \in DOMAIN tasks
    /\ tasks[i].kind = "video" /\ tasks[i].pc = "loop"
    /\ ~TrackEnded(i)
    /\ LET n == tasks[i].proc
       IN  IF procs[n].stdin = "closed"
           THEN /\ tasks[i].frames < MaxFrames
                /\ tasks' = [tasks EXCEPT ![i].frames = @ + 1]
                /\ procs' = procs
           ELSE IF procs[n].returncode # "none"
           THEN /\ procs' = CloseStdin(procs, n)
                /\ tasks' = [tasks EXCEPT ![i].pc = "done"]
           ELSE UNCHANGED <<procs, tasks>>
    /\ UNCHANGED <<sigVars, is_recording, active_recordings, disk, now, botVars, stopVars>>

\* _pipe_media_to_ffmpeg loop: track.recv() raises; finally closes the pipe
VideoEnded(i) ==
    /\ i \in DOMAIN tasks
    /\ tasks[i].kind = "video" /\ tasks[i].pc = "loop"
    /\ TrackEnded(i)
    /\ procs' = CloseStdin(procs, tasks[i].proc)
    /\ tasks' = [tasks EXCEPT ![i].pc = "done"]
    /\ UNCHANGED <<sigVars, is_recording, active_recordings, disk, now, botVars, stopVars>>

(* ------------------------- encoder subprocess ------------------------- *)
\* what the encoder leaves in its output file when it exits
EncoderOutput(d, file, size) == IF size > 0 THEN DictPut(d, file, size) ELSE d

\* the encoder sees end of input, flushes and exits
ProcExit(n, size) ==
    /\ n \in DOMAIN procs
    /\ procs[n].returncode = "none" /\ procs[n].stdin = "closed"
    /\ procs' = [procs EXCEPT ![n].returncode = "exited"]
    /\ disk' = EncoderOutput(disk, procs[n].file, size)
    /\ UNCHANGED <<sigVars, is_recording, active_recordings, now, tasks, botVars, stopVars>>

\* the encoder fails while its input pipe is still open, leaving no output
ProcDie(n) ==
    /\ n \in DOMAIN procs
    /\ procs[n].returncode = "none" /\ procs[n].stdin = "open"
    /\ procs' = [procs EXCEPT ![n].returncode = "exited"]
    /\ UNCHANGED <<sigVars, is_recording, active_recordings, disk, now, tasks, botVars, stopVars>>

Recorder ==
    \/ \E i \in 1..MaxTasks, n \in SampleCounts : AudioFirstFrame(i, n)
    \/ \E i \in 1..MaxTasks : AudioFirstTimeout(i)
    \/ \E i \in 1..MaxTasks : AudioFirstEnded(i)
    \/ \E i \in 1..MaxTasks, n \in SampleCounts : AudioFrame(i, n)
    \/ \E i \in 1..MaxTasks : AudioEnded(i)
    \/ \E i \in 1..MaxTasks : VideoFirstFrame(i)
    \/ \E i \in 1..MaxTasks : VideoFirstTimeout(i)
    \/ \E i \in 1..MaxTasks : VideoFirstEnded(i)
    \/ \E i \in 1..MaxTasks : VideoSpawned(i)
    \/ \E i \in 1..MaxTasks : VideoSpawnFailed(i)
    \/ \E i \in 1..MaxTasks : VideoFrame(i)
    \/ \E i \in 1..MaxTasks : VideoEnded(i)
    \/ \E n \in 1..MaxTasks, size \in VideoSizes : ProcExit(n, size)
    \/ \E n \in 1..MaxTasks : ProcDie(n)

(* --------------------- stop_recording_and_compose --------------------- *)
\* the entries of the registry, as (key, entry) pairs
Entries(reg) == {<<k, reg[u][k]>> : <<u, k>> \in
                   {<<u, k>> \in (DOMAIN reg) \X
                        UNION {DOMAIN reg[u] : u \in DOMAIN reg} : k \in DOMAIN reg[u]}}

\* lines 40-45: the process handles found in the registry
CollectProcesses(reg) == {e[2].process : e \in {x \in Entries(reg) : x[2].process # 0}}

\* lines 48-54: every collected process has a returncode
Drained(ps, waiting) == \A n \in waiting : ps[n].returncode # "none"

\* lines 56-61: close the pipes of the collected processes
CloseAll(ps, ns) == [n \in DOMAIN ps |->
                       IF n \in ns THEN [ps[n] EXCEPT !.stdin = "closed"] ELSE ps[n]]

\* the audio size test written as >= 44: a bare header counts as usable
UsableAudioAtFloor(reg, d) ==
    {e[2].filename : e \in {x \in Entries(reg) :
        /\ x[1].type = "audio"
        /\ x[2].filename \in DOMAIN d /\ d[x[2].filename] >= AudioFloor}}

\* lines 63-76: the partition into usable audio and video files
UsableAudio(reg, d) ==
    {e[2].filename : e \in {x \in Entries(reg) :
        /\ x[1].type = "audio"
        /\ x[2].filename \in DOMAIN d /\ d[x[2].filename] > AudioFloor}}

\* the video size test written as >= 1024
UsableVideoAtFloor(reg, d) ==
    {e[2].filename : e \in {x \in Entries(reg) :
        /\ x[1].type # "audio"
        /\ x[2].filename \in DOMAIN d /\ d[x[2].filename] >= VideoFloor}}

UsableVideo(reg, d) ==
    {e[2].filename : e \in {x \in Entries(reg) :
        /\ x[1].type # "audio"
        /\ x[2].filename \in DOMAIN d /\ d[x[2].filename] > VideoFloor}}

\* no catch-all: the exception reaches the caller
CatchAllEscapes(e) == Raised(e)

\* lines 128-131: the catch-all turns an exception into a result string
CatchAll(e) == InternalErrorMsg(e)

\* a cleanup that removes every file the stop produced or captured
CleanupFilesAll(af, vf, mixed, final) ==
    af \cup vf \cup ({mixed, final} \ {NoFile})

\* lines 104-108: the files the cleanup removes
CleanupFiles(af, vf, mixed, final) ==
    af \cup vf \cup (IF mixed # NoFile THEN {mixed} ELSE {})

\* lines 110-115
Cleanup(d, files) == DictDel(d, files)

\* lines 117-126: what is returned after the cleanup
FinalResult(final) == IF final # NoFile THEN Path(final) ELSE CompositionFailedMsg

\* lines 442-443 need the math module: more than two videos raise NameError
LayoutRaises(n) == n > 2 /\ ~MathImported

\* math.ceil(math.sqrt(n))
CeilSqrt(n) == CHOOSE k \in 0..n : k * k >= n /\ (k = 0 \/ (k - 1) * (k - 1) < n)

\* math.ceil(a / b)
CeilDiv(a, b) == (a + b - 1) \div b

\* line 453: the cell x{i % grid_cols}, y{i // grid_cols} of input i
GridCell(i, cols) == <<i % cols, i \div cols>>

NoLayout == [raised |-> TRUE, kind |-> "none", cols |-> 0, rows |-> 0, cells |-> <<>>]

\* lines 432-454: the layout of n videos (cells numbered from input 0)
Layout(n) ==
    IF n = 1
    THEN [raised |-> FALSE, kind |-> "full", cols |-> 1, rows |-> 1,
          cells |-> << <<0, 0>> >>]
    ELSE IF n = 2
         THEN [raised |-> FALSE, kind |-> "hstack", cols |-> 2, rows |-> 1,
               cells |-> << <<0, 0>>, <<1, 0>> >>]
         ELSE IF LayoutRaises(n) THEN NoLayout
              ELSE LET cols == CeilSqrt(n)
                   IN  [raised |-> FALSE, kind |-> "xstack", cols |-> cols,
                        rows |-> CeilDiv(n, cols),
                        cells |-> [i \in 1..n |-> GridCell(i - 1, cols)]]

NotComposed == [videos |-> {}, audio |-> NoFile, called |-> FALSE, proc |-> "none"]

\* the timeout handler without its proc.kill()
KillSkipped(p) == p

\* line 473: proc.kill()
Kill(p) == "killed"

\* A stage of the pipeline yields the position it suspends at ("idle": it
\* returned r), its locals and the disk it leaves.
Stage(pc, af, vf, mixed, comp, d, r) ==
    [pc |-> pc, af |-> af, vf |-> vf, mixed |-> mixed, comp |-> comp, disk |-> d, r |-> r]

\* lines 96-126, from the composition to the return or to the await in _compose_video
ComposeStage(af, vf, mixed, d) ==
    IF vf = {}
    THEN Stage("idle", af, vf, mixed, NotComposed,
               Cleanup(d, CleanupFiles(af, vf, mixed, NoFile)), FinalResult(NoFile))
    ELSE LET comp == [videos |-> vf, audio |-> mixed, called |-> TRUE, proc |-> "none"]
         IN  IF LayoutRaises(Cardinality(vf))
             THEN Stage("idle", af, vf, mixed, comp, d, CatchAll("NameError"))
             ELSE Stage("compose", af, vf, mixed, comp, d, NoResult)

\* the registry emptied before the partition reads it: nothing is captured
GatherStageCleared(reg, d) ==
    Stage("idle", {}, {}, NoFile, NotComposed, d, NoUsableMsg)

\* the clear left out: the entries outlive the stop
ClearRegistrySkipped(reg) == reg

\* line 79: self.active_recordings.clear()
ClearRegistry(reg) == EmptyDict

\* lines 63-94, from the partition to the return or to the next await
GatherStage(reg, d) ==
    LET af == UsableAudio(reg, d)
        vf == UsableVideo(reg, d)
    IN  IF af = {} /\ vf = {}
        THEN Stage("idle", af, vf, NoFile, NotComposed, d, NoUsableMsg)
        ELSE IF Cardinality(af) > 1
             THEN Stage("mix", af, vf, NoFile, NotComposed, d, NoResult)
             ELSE ComposeStage(af, vf, IF af = {} THEN NoFile ELSE CHOOSE f \in af : TRUE, d)

\* a merge whose failure is passed over: the composition goes on without audio
MixStageLenient(af, vf, d, ts, outcome) ==
    IF outcome = "ok"
    THEN ComposeStage(af, vf, MixedFileName(ts), DictPut(d, MixedFileName(ts), AudioFloor + 1))
    ELSE ComposeStage(af, vf, NoFile, d)

\* _merge_audio_tracks returns: the mixer exited 0, exited non-zero, or
\* create_subprocess_exec raised
MixStage(af, vf, d, ts, outcome) ==
    IF outcome = "ok"
    THEN ComposeStage(af, vf, MixedFileName(ts), DictPut(d, MixedFileName(ts), AudioFloor + 1))
    ELSE IF outcome = "nonzero"
         THEN Stage("idle", af, vf, NoFile, NotComposed, d, MixFailedMsg)
         ELSE Stage("idle", af, vf, NoFile, NotComposed, d, CatchAll("OSError"))

\* _compose_video: create_subprocess_exec raised, or the composer exited (0 or
\* non-zero) within the 60 s, then lines 103-126; or the timeout fired, the
\* composer is killed and communicate() is awaited again
ComposeDoneStage(af, vf, mixed, comp, d, ts, outcome) ==
    IF outcome = "raise"
    THEN Stage("idle", af, vf, mixed, comp, d, CatchAll("OSError"))
    ELSE IF outcome = "timeout"
    THEN Stage("reap", af, vf, mixed, [comp EXCEPT !.proc = Kill("running")], d, NoResult)
    ELSE LET final == IF outcome = "ok" THEN FinalFileName(ts) ELSE NoFile
             d1 == IF outcome = "ok" THEN DictPut(d, final, VideoFloor + 1) ELSE d
         IN  Stage("idle", af, vf, mixed, [comp EXCEPT !.proc = "exited"],
                   Cleanup(d1, CleanupFiles(af, vf, mixed, final)), FinalResult(final))

\* lines 474-476 and 103-126: the killed composer is reaped, _compose_video
\* returns None
ReapStage(af, vf, mixed, comp, d) ==
    Stage("idle", af, vf, mixed, [comp EXCEPT !.proc = "reaped"],
          Cleanup(d, CleanupFiles(af, vf, mixed, NoFile)), FinalResult(NoFile))

\* the pipeline of call c moves to the end of stage st
Apply(c, st) ==
    /\ stopPc' = st.pc
    /\ audio_files' = st.af
    /\ video_files' = st.vf
    /\ mixed_audio_path' = st.mixed
    /\ composed' = st.comp
    /\ disk' = st.disk
    /\ stopCall' = IF st.pc = "idle" THEN 0 ELSE c
    /\ IF st.pc = "idle"
       THEN /\ ret' = [ret EXCEPT ![c] = st.r]
            /\ botPc' = [botPc EXCEPT ![c] = "notify"]
       ELSE /\ ret' = ret
            /\ botPc' = [botPc EXCEPT ![c] = "stop"]

\* the guard dropped: the pipeline runs whatever the flag says
NotActiveNever(rec) == FALSE

\* lines 32-33: `if not self.is_recording: return "No recording was active."`
NotActive(rec) == ~rec

\* the reset left out: the flag stays as it was
StopFlagKept(rec) == rec

\* line 36: self.is_recording = False
StopFlag(rec) == FALSE

\* stop_and_cleanup: the two-second sleep is over and
\* stop_recording_and_compose runs up to its first await (or returns)
StopCall(c) ==
    /\ botPc[c] = "sleep"
    /\ IF NotActive(is_recording)
       THEN /\ ret' = [ret EXCEPT ![c] = NotRecordingMsg]
            /\ botPc' = [botPc EXCEPT ![c] = "notify"]
            /\ UNCHANGED <<is_recording, active_recordings, disk, procs, stopVars>>
       ELSE /\ is_recording' = StopFlag(is_recording)
            /\ LET waiting == CollectProcesses(active_recordings)
               IN  IF Drained(procs, waiting)
                   THEN /\ procs' = CloseAll(procs, waiting)
                        /\ active_recordings' = ClearRegistry(active_recordings)
                        /\ stop_procs' = {}
                        /\ Apply(c, GatherStage(active_recordings, disk))
                   ELSE /\ stop_procs' = waiting
                        /\ stopPc' = "wait"
                        /\ stopCall' = c
                        /\ botPc' = [botPc EXCEPT ![c] = "stop"]
                        /\ UNCHANGED <<active_recordings, disk, procs, ret, audio_files,
                                       video_files, mixed_audio_path, composed>>
    /\ UNCHANGED <<sigVars, now, peers, conns, started, tasks>>

\* the last awaited proc.wait() returns; lines 56-94 run
StopDrained ==
    /\ stopPc = "wait"
    /\ Drained(procs, stop_procs)
    /\ procs' = CloseAll(procs, stop_procs)
    /\ active_recordings' = ClearRegistry(active_recordings)
    /\ stop_procs' = {}
    /\ Apply(stopCall, GatherStage(active_recordings, disk))
    /\ UNCHANGED <<sigVars, is_recording, now, peers, conns, started, tasks>>

\* the mixer subprocess is done (or could not be spawned)
MixDone(outcome) ==
    /\ stopPc = "mix"
    /\ now' \in TimeRead(now)
    /\ Apply(stopCall, MixStage(audio_files, video_files, disk, now', outcome))
    /\ UNCHANGED <<sigVars, is_recording, active_recordings, peers, conns, started,
                   stop_procs, recVars>>

\* the composition subprocess is done, ran into the timeout, or could not be spawned
ComposeDone(outcome) ==
    /\ stopPc = "compose"
    /\ now' \in TimeRead(now)
    /\ Apply(stopCall, ComposeDoneStage(audio_files, video_files, mixed_audio_path,
                                        composed, disk, now', outcome))
    /\ UNCHANGED <<sigVars, is_recording, active_recordings, peers, conns, started,
                   stop_procs, recVars>>

\* the killed composer has exited: `await proc.communicate()` of line 474 returns
ComposeReaped ==
    /\ stopPc = "reap"
    /\ composed.proc = "killed"
    /\ Apply(stopCall, ReapStage(audio_files, video_files, mixed_audio_path,
                                 composed, disk))
    /\ UNCHANGED <<sigVars, is_recording, active_recordings, now, peers, conns, started,
                   stop_procs, recVars>>

(* -------------------------- stop_and_cleanup -------------------------- *)
\* pc.close() on every connection in the map, then peers.clear()
CloseConnections(cs, ids) ==
    [k \in DOMAIN cs |-> IF k \in ids THEN [cs[k] EXCEPT !.state = "closed"] ELSE cs[k]]

\* /stop-recording calls stop_and_cleanup: under the state_lock every peer
\* connection is closed and the map cleared; the call then sleeps two seconds
BotCloseAll(c) ==
    /\ botPc[c] = "idle"
    /\ \A b \in Calls : b < c => botPc[b] # "idle"
    /\ conns' = CloseConnections(conns, {peers[p] : p \in DOMAIN peers})
    /\ peers' = EmptyDict
    /\ botPc' = [botPc EXCEPT ![c] = "sleep"]
    /\ UNCHANGED <<sigVars, is_recording, active_recordings, disk, now, started, ret,
                   stopVars, recVars>>

\* the recording_update and the signaling close, then the call returns
BotFinish(c) ==
    /\ botPc[c] = "notify"
    /\ botPc' = [botPc EXCEPT ![c] = "done"]
    /\ UNCHANGED <<sigVars, is_recording, active_recordings, disk, now, peers, conns, started,
                   ret, stopVars, recVars>>

Bot ==
    \/ \E c \in Calls : BotCloseAll(c)
    \/ \E c \in Calls : StopCall(c)
    \/ StopDrained
    \/ \E o \in {"ok", "nonzero", "raise"} : MixDone(o)
    \/ \E o \in {"ok", "nonzero", "timeout", "raise"} : ComposeDone(o)
    \/ ComposeReaped
    \/ \E c \in Calls : BotFinish(c)

Next ==
    \/ StartRecording
    \/ \E p \in Peers : UserList(p)
    \/ \E c \in 1..MaxConns : RemoteClosed(c)
    \/ \E c \in 1..MaxConns, kind \in {"audio", "video"}, lbl \in Labels :
          OnNewTrack(c, kind, lbl)
    \/ Recorder
    \/ Bot

Spec == Init /\ [][Next]_vars

(* ------------------ repeated starts during the intake ------------------ *)
\* start_recording as a public operation of the manager: it may be called
\* again at any moment while peers join, tracks arrive and recorders run
StartNext ==
    \/ StartRecording
    \/ StartAgain
    \/ \E p \in Peers : UserList(p)
    \/ \E c \in 1..MaxConns : RemoteClosed(c)
    \/ \E c \in 1..MaxConns, kind \in {"audio", "video"}, lbl \in Labels :
          OnNewTrack(c, kind, lbl)
    \/ Recorder

StartSpec == Init /\ [][StartNext]_vars

(* ---------------------- cancelled recorder tasks ---------------------- *)
\* _writer is cancelled while it awaits a frame: CancelledError passes the
\* inner `except Exception`, is swallowed at lines 242-243, and the finally
\* block closes the file if one was opened
AudioCancelled(i) ==
    /\ i \in DOMAIN tasks
    /\ tasks[i].kind = "audio" /\ tasks[i].pc \in {"first", "loop"}
    /\ tasks' = [tasks EXCEPT ![i] =
                   IF @.pc = "loop" THEN CloseWav([@ EXCEPT !.pc = "done", !.frames = 0])
                   ELSE [@ EXCEPT !.pc = "done"]]
    /\ UNCHANGED <<sigVars, is_recording, active_recordings, disk, now, procs, botVars, stopVars>>

\* the video task is cancelled: before the write loop nothing catches the
\* CancelledError (lines 293-300); in the loop, at the frame receive, the
\* pacing sleep or the drain, it is swallowed at lines 351-352 and the
\* finally block closes the pipe
VideoCancelled(i) ==
    /\ i \in DOMAIN tasks
    /\ tasks[i].kind = "video" /\ tasks[i].pc \in {"first", "spawn", "loop"}
    /\ IF tasks[i].pc = "loop"
       THEN /\ procs' = CloseStdin(procs, tasks[i].proc)
            /\ tasks' = [tasks EXCEPT ![i].pc = "done"]
       ELSE /\ procs' = procs
            /\ tasks' = [tasks EXCEPT ![i].pc = "cancelled"]
    /\ UNCHANGED <<sigVars, is_recording, active_recordings, disk, now, botVars, stopVars>>

\* the recorders of one session, whose tasks may be cancelled at any of
\* their suspension points
RecorderNext ==
    \/ StartRecording
    \/ \E p \in Peers : UserList(p)
    \/ \E c \in 1..MaxConns : RemoteClosed(c)
    \/ \E c \in 1..MaxConns, kind \in {"audio", "video"}, lbl \in Labels :
          OnNewTrack(c, kind, lbl)
    \/ Recorder
    \/ \E i \in 1..MaxTasks : AudioCancelled(i)
    \/ \E i \in 1..MaxTasks : VideoCancelled(i)

RecorderSpec == Init /\ [][RecorderNext]_vars

(* --------------------- signaling client and peers --------------------- *)
Actions == {"answer", "ice", "offer"}                    \* data["action"]
\* data["payload"]: absent, a dict without "candidate", a dict with a
\* well-formed one, a dict with a malformed one, a truthy value that is no dict
Payloads == {"none", "nocandidate", "good", "malformed", "nondict"}

Offer(k) == [type |-> "offer", conn |-> k]
RecordingUpdate == [type |-> "recording_update", conn |-> 0]
Call(op, peer, action, payload, result) ==
    [op |-> op, peer |-> peer, action |-> action, payload |-> payload, result |-> result]

\* send without its except clause
SendCatchMissing(e) == "raised"

\* lines 59-61: `except ConnectionClosed`
SendCatch(e) == "closed"

\* SignalingClient.send: what the call does with socket w and flag
SendResult(w, flag) ==
    IF w # "none" /\ flag
    THEN IF w = "open" THEN "written" ELSE SendCatch("ConnectionClosed")
    ELSE "dropped"

\* line 60
SendFlag(flag, result) == IF result = "closed" THEN FALSE ELSE flag

\* line 58
SendWire(w, msg, result) == IF result = "written" THEN Append(w, msg) ELSE w

\* SignalingClient.connect, and the listen() task connect_and_record creates
Connect(ok) ==
    /\ listenPc = "idle" /\ ws = "none"
    /\ IF ok
       THEN ws' = "open" /\ is_connected' = TRUE /\ listenPc' = "waiting"
       ELSE ws' = ws /\ is_connected' = FALSE /\ listenPc' = "never"
    /\ UNCHANGED <<ctlVars, is_recording, active_recordings, disk, now, botVars, stopVars,
                   recVars, handler, wire, calls, last>>

\* the server or the network closes the websocket
TransportClosed ==
    /\ ws = "open"
    /\ ws' = "closed"
    /\ UNCHANGED <<ctlVars, is_recording, active_recordings, disk, now, botVars, stopVars,
                   recVars, is_connected, listenPc, handler, wire, calls, last>>

\* listen: the iteration over the socket raises ConnectionClosed
ListenEnds ==
    /\ listenPc = "waiting" /\ ws = "closed"
    /\ listenPc' = "done"
    /\ is_connected' = FALSE
    /\ UNCHANGED <<ctlVars, is_recording, active_recordings, disk, now, botVars, stopVars,
                   recVars, ws, handler, wire, calls, last>>

\* SignalingClient.close
Close ==
    /\ ws' = IF ws # "none" /\ is_connected THEN "closed" ELSE ws
    /\ is_connected' = FALSE
    /\ UNCHANGED <<ctlVars, is_recording, active_recordings, disk, now, botVars, stopVars,
                   recVars, listenPc, handler, wire, calls, last>>

\* send called with a recording_update (connect_and_record, stop_and_cleanup)
SendCall ==
    /\ calls < MaxCalls
    /\ LET r == SendResult(ws, is_connected)
       IN  /\ wire' = SendWire(wire, RecordingUpdate, r)
           /\ is_connected' = SendFlag(is_connected, r)
           /\ last' = Call("send", "", "recording_update", "", r)
    /\ calls' = calls + 1
    /\ UNCHANGED <<ctlVars, is_recording, active_recordings, disk, now, botVars, stopVars,
                   recVars, ws, listenPc, handler>>

NewConn(p) == [peer |-> p, state |-> "open", stray |-> NoStray]

\* create_peer without the test of line 17
create_peer_always(cs, ps, p) == Append(cs, NewConn(p))

\* RTCPeerManager.create_peer, lines 17-19: the connections after the call
create_peer_conns(cs, ps, p) == IF p \in DOMAIN ps THEN cs ELSE Append(cs, NewConn(p))

\* lines 17-19: the peer map after the call
create_peer_peers(cs, ps, p) ==
    LET made == create_peer_conns(cs, ps, p)
    IN  IF Len(made) > Len(cs) THEN DictPut(ps, p, Len(made)) ELSE ps

\* create_peer(p, initiator=True) up to `await pc.createOffer()`, or to its
\* return when the entry exists
CreatePeerStep(p, task) ==
    /\ handler.pc = "none" \/ p \in DOMAIN peers
    /\ Len(conns) < MaxConns \/ p \in DOMAIN peers
    /\ calls < MaxCalls
    /\ conns' = create_peer_conns(conns, peers, p)
    /\ peers' = create_peer_peers(conns, peers, p)
    /\ handler' = IF Len(conns') > Len(conns)
                  THEN [pc |-> "offer", conn |-> Len(conns'), task |-> task]
                  ELSE handler
    /\ last' = Call("create_peer", p, "", "",
                    IF Len(conns') > Len(conns) THEN "created" ELSE "existing")
    /\ calls' = calls + 1
    /\ UNCHANGED <<ctlVars, is_recording, active_recordings, disk, now, started, botPc, ret,
                   stopVars, recVars, ws, is_connected, wire>>

\* listen dispatches a user_list naming p to _on_signaling_message, which
\* calls create_peer for a user the peer map does not hold
ListenUserList(p) ==
    /\ listenPc = "waiting" /\ ws = "open"
    /\ \A q \in Peers : q \in PeerOrder[p] => \E k \in DOMAIN conns : conns[k].peer = q
    /\ IF p \in DOMAIN peers
       THEN UNCHANGED vars
       ELSE CreatePeerStep(p, "listen") /\ listenPc' = "handling"

\* create_peer called for a peer id that has an entry
CreatePeerAgain(p) ==
    /\ p \in DOMAIN peers
    /\ CreatePeerStep(p, "direct")
    /\ listenPc' = listenPc

\* listen without its finally clause: the flag survives the exception
listen_finally_missing(r, flag) == flag

\* listen, lines 49-52: an exception that leaves the callback or the decoding
\* is caught by `except Exception`, and the finally clause clears the flag
listen_finally(r, flag) == IF r = "raised" THEN FALSE ELSE flag

\* create_peer, lines 44-49: the offer is made and handed to send
OfferReady ==
    /\ handler.pc = "offer"
    /\ LET r == SendResult(ws, is_connected)
           escapes == r = "raised" /\ handler.task = "listen"
       IN  /\ wire' = SendWire(wire, Offer(handler.conn), r)
           /\ is_connected' = IF escapes THEN listen_finally(r, is_connected)
                              ELSE SendFlag(is_connected, r)
           /\ listenPc' = IF handler.task # "listen" THEN listenPc
                          ELSE IF escapes THEN "done" ELSE "waiting"
           /\ last' = Call("send", "", "offer", "", r)
    /\ handler' = NoHandler
    /\ calls' = calls + 1
    /\ UNCHANGED <<ctlVars, is_recording, active_recordings, disk, now, botVars, stopVars,
                   recVars, ws>>

\* lines 72-73: `except Exception` around the candidate
IceCatch(e) == "ice_caught"

\* RTCPeerManager.handle_signal: what the call does
handle_signal(ps, p, action, payload) ==
    IF p \notin DOMAIN ps THEN "dropped"
    ELSE IF action = "answer"
         THEN IF payload = "good" THEN "answered" ELSE "raised"
         ELSE IF action = "ice"
              THEN IF payload = "nondict" THEN "raised"   \* line 61, outside the try
                   ELSE IF payload \in {"none", "nocandidate"} THEN "ice_skipped"
                   ELSE IF payload = "good" THEN "ice_added"
                   ELSE IceCatch("ValueError")
              ELSE "ignored"

\* listen dispatches a signal from p; an exception leaving the callback ends
\* the listen loop (lines 49-52)
ListenSignal(p, action, payload) ==
    /\ listenPc = "waiting" /\ ws = "open"
    /\ calls < MaxCalls
    /\ LET r == handle_signal(peers, p, action, payload)
       IN  /\ listenPc' = IF r = "raised" THEN "done" ELSE listenPc
           /\ is_connected' = listen_finally(r, is_connected)
           /\ last' = Call("handle_signal", p, action, payload, r)
    /\ calls' = calls + 1
    /\ UNCHANGED <<ctlVars, is_recording, active_recordings, disk, now, botVars, stopVars,
                   recVars, ws, handler, wire>>

\* an inbound websocket message that is not JSON: a text frame, or a binary
\* frame whose bytes are not valid UTF-8
Frames == {"text", "binary"}

\* listen, lines 42-52: json.loads raises JSONDecodeError for text that is not
\* JSON, caught at line 45; for bytes that are not UTF-8 it raises
\* UnicodeDecodeError, which only the outer `except Exception` catches
decode_error(frame) == IF frame = "text" THEN "skipped" ELSE "raised"

\* listen receives a message that is not JSON
ListenUndecodable(frame) ==
    /\ listenPc = "waiting" /\ ws = "open"
    /\ calls < MaxCalls
    /\ LET r == decode_error(frame)
       IN  /\ listenPc' = IF r = "raised" THEN "done" ELSE listenPc
           /\ is_connected' = listen_finally(r, is_connected)
           /\ last' = Call("decode", "", frame, "", r)
    /\ calls' = calls + 1
    /\ UNCHANGED <<ctlVars, is_recording, active_recordings, disk, now, botVars, stopVars,
                   recVars, ws, handler, wire>>

SignalNext ==
    \/ \E ok \in BOOLEAN : Connect(ok)
    \/ TransportClosed
    \/ ListenEnds
    \/ Close
    \/ SendCall
    \/ \E p \in Peers : ListenUserList(p)
    \/ \E p \in Peers : CreatePeerAgain(p)
    \/ OfferReady
    \/ \E p \in Peers, a \in Actions, pl \in Payloads : ListenSignal(p, a, pl)
    \/ \E f \in Frames : ListenUndecodable(f)
    \/ \E c \in 1..MaxConns : RemoteClosed(c)

SignalSpec == Init /\ [][SignalNext]_vars

(* ---------------------- peer connection lifecycle ---------------------- *)
\* the states on which on_connectionstatechange acts (line 34)
Terminal == {"failed", "closed", "disconnected"}

\* the connectionState changes the transports of a connection make
Forward ==
    [new |-> {"connecting"}, connecting |-> {"connected", "failed"},
     connected |-> {"disconnected", "failed"}, disconnected |-> {},
     failed |-> {}, closed |-> {}]

\* a close() that resets the connection
PcCloseReopens(state) == "new"

\* RTCPeerConnection.close(), awaited at rtc_peer.py:36 and recording_bot.py:37
PcClose(state) == "closed"

\* the handler of connection k, scheduled by a "connectionstatechange" event
Event(k) == [conn |-> k, pc |-> "start"]

\* a user_list names p: create_peer, lines 17-19
PeerCreate(p) ==
    /\ p \notin DOMAIN peers
    /\ Len(conns) < MaxConns
    /\ \A q \in Peers : q \in PeerOrder[p] => \E k \in DOMAIN conns : conns[k].peer = q
    /\ conns' = Append(conns, [NewConn(p) EXCEPT !.state = "new"])
    /\ peers' = create_peer_peers(conns, peers, p)
    /\ UNCHANGED <<is_recording, active_recordings, disk, now, started, botPc, ret,
                   stopVars, recVars, ws, is_connected, listenPc, handler, wire,
                   calls, last, events, active_bots, routePc>>

\* the transports move connection k to state s; a terminal state schedules
\* the handler registered for k
StateChange(k, s) ==
    /\ k \in DOMAIN conns
    /\ s \in Forward[conns[k].state]
    /\ conns' = [conns EXCEPT ![k].state = s]
    /\ events' = IF s \in Terminal THEN events \cup {Event(k)} ELSE events
    /\ UNCHANGED <<is_recording, active_recordings, disk, now, peers, started, botPc,
                   ret, stopVars, recVars, ws, is_connected, listenPc, handler,
                   wire, calls, last, active_bots, routePc>>

\* on_connectionstatechange, lines 34-36: the handler of connection e.conn
\* looks its peer id up and closes the connection the map holds for it. The
\* close emits "closed", which schedules the handler of the closed
\* connection; on a connection that is closed already it returns at once and
\* the pop of line 37 follows without suspension
HandlerStart(e) ==
    /\ e \in events /\ e.pc = "start"
    /\ LET p == conns[e.conn].peer
       IN  IF p \in DOMAIN peers
           THEN IF conns[peers[p]].state = "closed"
                THEN /\ peers' = DictDel(peers, {p})
                     /\ events' = events \ {e}
                     /\ conns' = conns
                ELSE /\ conns' = [conns EXCEPT ![peers[p]].state = PcClose(@)]
                     /\ events' = ((events \ {e}) \cup {[conn |-> e.conn, pc |-> "closing"]})
                                     \cup {Event(peers[p])}
                     /\ peers' = peers
           ELSE /\ events' = events \ {e}
                /\ UNCHANGED <<conns, peers>>
    /\ UNCHANGED <<is_recording, active_recordings, disk, now, started, botPc, ret,
                   stopVars, recVars, ws, is_connected, listenPc, handler, wire,
                   calls, last, active_bots, routePc>>

\* on_connectionstatechange, line 37: the awaited close() has returned and
\* the entry of the peer id is popped
HandlerResume(e) ==
    /\ e \in events /\ e.pc = "closing"
    /\ peers' = DictDel(peers, {conns[e.conn].peer})
    /\ events' = events \ {e}
    /\ UNCHANGED <<is_recording, active_recordings, disk, now, conns, started, botPc,
                   ret, stopVars, recVars, ws, is_connected, listenPc, handler,
                   wire, calls, last, active_bots, routePc>>

\* stop_and_cleanup, lines 33-38: under the state_lock every connection of
\* the map that is not closed is closed, and the map is cleared
PeerCloseAll ==
    /\ botPc[1] = "idle"
    /\ LET open == {k \in {peers[p] : p \in DOMAIN peers} : conns[k].state # "closed"}
       IN  /\ conns' = [k \in DOMAIN conns |->
                          IF k \in open THEN [conns[k] EXCEPT !.state = PcClose(@)]
                          ELSE conns[k]]
           /\ events' = events \cup {Event(k) : k \in open}
    /\ peers' = EmptyDict
    /\ botPc' = [botPc EXCEPT ![1] = "sleep"]
    /\ UNCHANGED <<is_recording, active_recordings, disk, now, started, ret, stopVars,
                   recVars, ws, is_connected, listenPc, handler, wire, calls, last,
                   active_bots, routePc>>

Handlers == {[conn |-> k, pc |-> pc] : k \in 1..MaxConns, pc \in {"start", "closing"}}

PeerNext ==
    \/ \E p \in Peers : PeerCreate(p)
    \/ \E k \in 1..MaxConns, s \in Terminal \cup {"connecting", "connected"} : StateChange(k, s)
    \/ \E e \in Handlers : HandlerStart(e)
    \/ \E e \in Handlers : HandlerResume(e)
    \/ PeerCloseAll

PeerSpec == Init /\ [][PeerNext]_vars

\* the event loop runs every handler that was scheduled and resumes every
\* handler whose close() has returned
FairPeerSpec ==
    /\ Init /\ [][PeerNext]_vars
    /\ \A e \in Handlers : WF_vars(HandlerStart(e)) /\ WF_vars(HandlerResume(e))

(* ------------------- the three-peer session at stop ------------------- *)
\* Three peers joined and left again: p1 sent audio and a camera feed, p2
\* audio, a camera feed and a screen share, p3 audio only.  Every recorder
\* has seen its track end; the encoders have their pipes closed and are
\* still flushing.  The tracks, in the order they arrived:
E2EPeers == <<"p1", "p2", "p3">>
E2ETracks == << [conn |-> 1, kind |-> "audio"], [conn |-> 1, kind |-> "video"],
                [conn |-> 2, kind |-> "audio"], [conn |-> 2, kind |-> "video"],
                [conn |-> 2, kind |-> "video"], [conn |-> 3, kind |-> "audio"] >>

E2EUser(t) == E2EPeers[E2ETracks[t].conn]

\* the number of the encoder of video track t
E2EProc(t) == Cardinality({k \in 1..t : E2ETracks[k].kind = "video"})

\* the registry after the intake and the first frame of tracks 1..t
RECURSIVE E2ERegistry(_)
E2ERegistry(t) ==
    IF t = 0 THEN EmptyDict
    ELSE LET r0 == E2ERegistry(t - 1)
             u == E2EUser(t)
         IN  IF E2ETracks[t].kind = "audio"
             THEN LET r1 == add_audio_track_reg(r0, TRUE, u)
                  IN  DictPut(r1, u, DictPut(r1[u], AudioKey,
                                             AudioEntry(AudioFileName(u, 0))))
             ELSE LET r1 == add_video_track_reg(r0, TRUE, t, u, "", BotTrackType(""))
                      key == CHOOSE k \in DOMAIN r1[u] : k.id = t
                  IN  DictPut(r1, u, DictPut(r1[u], key,
                                             VideoEntry(r1[u][key].filename, E2EProc(t))))

\* the recorder tasks of tracks 1..t, all finished
RECURSIVE E2ETasks(_)
E2ETasks(t) ==
    IF t = 0 THEN <<>>
    ELSE LET u == E2EUser(t)
             c == E2ETracks[t].conn
             made == IF E2ETracks[t].kind = "audio"
                     THEN add_audio_track_tasks(E2ETasks(t - 1), TRUE, c, u, 0)
                     ELSE add_video_track_tasks(E2ETasks(t - 1), E2ERegistry(t - 1), TRUE,
                                                c, t, u, "", BotTrackType(""))
         IN  [made EXCEPT ![t].pc = "done",
                          ![t].proc = IF E2ETracks[t].kind = "video" THEN E2EProc(t) ELSE 0]

E2EVideoTracks == {t \in DOMAIN E2ETracks : E2ETracks[t].kind = "video"}
E2EAudioTracks == {t \in DOMAIN E2ETracks : E2ETracks[t].kind = "audio"}

E2EInit ==
    /\ SigInit
    /\ is_recording = TRUE
    /\ started = 1
    /\ active_recordings = E2ERegistry(Len(E2ETracks))
    /\ tasks = E2ETasks(Len(E2ETracks))
    /\ procs = [n \in 1..Cardinality(E2EVideoTracks) |->
                  LET t == CHOOSE k \in E2EVideoTracks : E2EProc(k) = n
                  IN  [file |-> E2ETasks(Len(E2ETracks))[t].file, stdin |-> "closed",
                       returncode |-> "none"]]
    /\ \E samples \in [E2EAudioTracks -> SampleCounts] :
          disk = [f \in {AudioFileName(E2EUser(t), 0) : t \in E2EAudioTracks} |->
                    LET t == CHOOSE k \in E2EAudioTracks : AudioFileName(E2EUser(k), 0) = f
                    IN  WavCreate(EmptyDict, f, samples[t])[f]]
    /\ now = 0
    /\ peers = EmptyDict
    /\ conns = [k \in DOMAIN E2EPeers |->
                  [peer |-> E2EPeers[k], state |-> "closed", stray |-> NoStray]]
    /\ botPc = [c \in Calls |-> "idle"]
    /\ ret = [c \in Calls |-> NoResult]
    /\ stopPc = "idle"
    /\ stopCall = 0
    /\ stop_procs = {}
    /\ audio_files = {}
    /\ video_files = {}
    /\ mixed_audio_path = NoFile
    /\ composed = NotComposed

E2ENext ==
    \/ \E n \in DOMAIN E2ETracks, size \in VideoSizes : ProcExit(n, size)
    \/ Bot

StopSpec == E2EInit /\ [][E2ENext]_vars

(* ------------------------------ fairness ------------------------------ *)
\* The event loop runs every coroutine that can continue, timers fire, a
\* closed connection makes recv() raise, and an encoder whose input pipe is
\* closed exits.  Nothing obliges the remote peers to send or to leave.
Fairness ==
    /\ \A c \in Calls : WF_vars(BotCloseAll(c)) /\ WF_vars(StopCall(c)) /\ WF_vars(BotFinish(c))
    /\ WF_vars(StopDrained)
    /\ WF_vars(\E o \in {"ok", "nonzero", "raise"} : MixDone(o))
    /\ WF_vars(\E o \in {"ok", "nonzero", "timeout", "raise"} : ComposeDone(o))
    /\ WF_vars(ComposeReaped)
    /\ \A i \in 1..MaxTasks :
          /\ WF_vars(AudioFirstTimeout(i) \/ AudioFirstEnded(i))
          /\ WF_vars(AudioEnded(i))
          /\ WF_vars(VideoFirstTimeout(i) \/ VideoFirstEnded(i))
          /\ WF_vars(VideoSpawned(i) \/ VideoSpawnFailed(i))
          /\ WF_vars(VideoEnded(i))
          /\ WF_vars(\E size \in VideoSizes : ProcExit(i, size))

FairSpec == Init /\ [][Next]_vars /\ Fairness

(* ------------------------------- claims ------------------------------- *)
\* the call c ran the stop pipeline and has its result
PipelineReturned(c) == ret[c] \notin {NoResult, NotRecordingMsg}

\* the step in which stop_recording_and_compose returns to call c
Returns(c) == ret[c] = NoResult /\ ret'[c] # NoResult

(* C1: stop_recording_and_compose never raises to its caller: whatever the
   registry holds and however the mixer, the composer and the layout
   computation end, the call leaves with a result value, a path or a
   message. *)
C1_StopNeverRaises ==
    \A c \in Calls :
       /\ ret[c].tag # "raised"
       /\ botPc[c] \in {"notify", "done"} => ret[c].tag \in {"msg", "path"}

\* the layout computation failed inside the pipeline and the call still got a message
C1_Witness ==
    \E c \in Calls : botPc[c] = "done" /\ ret[c] = InternalErrorMsg("NameError")

(* C2: with at least one usable audio file and no video file, stop returns
   the path of an audio file that exists on disk, without calling
   _compose_video; with exactly one usable audio file that path is the
   track's own file. *)
C2_AudioOnlyReturnsArtifact ==
    \A c \in Calls :
       (/\ PipelineReturned(c)
        /\ audio_files # {} /\ video_files = {}
        /\ Cardinality(audio_files) > 1 => mixed_audio_path # NoFile)
       => /\ ret[c].tag = "path"
          /\ ret[c].path \in DOMAIN disk
          /\ ~composed.called
          /\ Cardinality(audio_files) = 1 => ret[c].path \in audio_files

(* C3: whenever stop returns after having captured per-track files, every
   captured per-track file and the mixed-audio file, if one was produced, is
   gone from the disk. *)
C3_IntermediatesDeleted ==
    [][\A c \in Calls :
          (Returns(c) /\ ret'[c] # NotRecordingMsg)
          => \A f \in audio_files' \cup video_files' \cup ({mixed_audio_path'} \ {NoFile}) :
                f \notin DOMAIN disk']_vars

(* C4: the file whose path stop returns is not among the files the cleanup
   removed: whenever a call has a path as its result, that file is on disk
   and is none of the captured or mixed intermediates. *)
C4_FinalArtifactKept ==
    \A c \in Calls :
       ret[c].tag = "path"
       => /\ ret[c].path \in DOMAIN disk
          /\ ret[c].path \notin audio_files \cup video_files \cup {mixed_audio_path}

\* a composition succeeded and the cleanup removed captured audio and video files
C4_Witness ==
    \E c \in Calls :
       /\ ret[c].tag = "path"
       /\ audio_files # {} /\ video_files # {}
       /\ \A f \in audio_files \cup video_files : f \notin DOMAIN disk

(* C5: at most one recorder task is ever created per (peer, track kind,
   discriminator camera/screenshare/audio). *)
C5_OneRecorderPerTrack ==
    \A i, j \in DOMAIN tasks :
       i # j => <<tasks[i].user, tasks[i].kind, tasks[i].key.type>>
                # <<tasks[j].user, tasks[j].kind, tasks[j].key.type>>

(* C6: every stop_and_cleanup call that has closed the peer connections
   eventually returns, given that every encoder exits once its input pipe
   is closed, also when a user_list message or a track arrives during the
   shutdown. *)
C6_StopAndCleanupReturns ==
    \A c \in Calls : (botPc[c] = "sleep") ~> (botPc[c] = "done")

(* C7: a stop_recording_and_compose call made while the state is not
   recording returns the 'not recording' result at once and changes
   nothing: flag, registry, disk, subprocesses and the pipeline's state stay
   as they are. *)
C7_StopWhileIdleIsNoop ==
    [][\A c \in Calls :
          (botPc[c] = "sleep" /\ botPc'[c] # "sleep" /\ ~is_recording)
          => /\ ret'[c] = NotRecordingMsg
             /\ botPc'[c] = "notify"
             /\ UNCHANGED <<is_recording, active_recordings, disk, procs, stopVars>>]_vars

\* a call got 'not recording' while the registry and the disk were not empty
C7_Witness ==
    \E c \in Calls :
       /\ ret[c] = NotRecordingMsg
       /\ active_recordings # EmptyDict /\ \E u \in DOMAIN active_recordings :
                                              active_recordings[u] # EmptyDict
       /\ disk # EmptyDict

\* no entry of the registry names a file above its size floor
AllBelowFloor(reg, d) ==
    \A u \in DOMAIN reg : \A k \in DOMAIN reg[u] :
       LET f == reg[u][k].filename
       IN  f \notin DOMAIN d
           \/ d[f] <= (IF k.type = "audio" THEN AudioFloor ELSE VideoFloor)

\* the step in which call c runs the partition of lines 63-87
Partitions(c) ==
    /\ Returns(c)
    /\ \/ botPc[c] = "sleep" /\ is_recording
       \/ botPc[c] = "stop" /\ stopPc = "wait"

(* C8 as stated: when every recorded file is at or below its floor, stop
   reports 'no usable media', and a repeated stop call reports that same
   failure again. *)
C8_RepeatedStopSameFailure ==
    [][\A c \in Calls :
          /\ (Partitions(c) /\ AllBelowFloor(active_recordings, disk))
             => ret'[c] = NoUsableMsg
          /\ (Returns(c) /\ \E b \in Calls \ {c} : ret[b] = NoUsableMsg)
             => ret'[c] = NoUsableMsg]_vars

(* C8 amended: when every recorded file is at or below its floor, stop
   reports 'no usable media'; a repeated stop call, the session being no
   longer recording, returns the 'not recording' result. *)
C8_NoUsableThenNotRecording ==
    [][\A c \in Calls :
          /\ (Partitions(c) /\ AllBelowFloor(active_recordings, disk))
             => ret'[c] = NoUsableMsg
          /\ (Returns(c) /\ \E b \in Calls \ {c} : ret[b] = NoUsableMsg)
             => ret'[c] = NotRecordingMsg]_vars

\* a header-only audio file was recorded, one call reported 'no usable media'
\* and the repeated call returned 'not recording'
C8_Witness ==
    /\ \E f \in DOMAIN disk : f.ext = "wav" /\ disk[f] <= AudioFloor
    /\ \E c \in Calls : ret[c] = NoUsableMsg
    /\ \E c \in Calls : ret[c] = NotRecordingMsg /\ botPc[c] = "done"

(* C9: two peers each sending only audio: stop returns the path of the one
   mixed artifact; when it returns the two per-peer files are deleted and
   the returned path is on disk. *)
C9_TwoAudioPeersMixed ==
    \A c \in Calls :
       (/\ PipelineReturned(c)
        /\ Cardinality(audio_files) = 2 /\ video_files = {}
        /\ Cardinality({f.user : f \in audio_files}) = 2
        /\ mixed_audio_path # NoFile)
       => /\ ret[c].tag = "path"
          /\ ret[c].path \in DOMAIN disk
          /\ \A f \in audio_files : f \notin DOMAIN disk

(* C10: three peers, three video files and three audio files: stop reaches
   the composition with exactly the three videos and the three-source mix
   and, no encoder failing, returns the path of the composed output. *)
C10_ThreePeersComposed ==
    \A c \in Calls :
       (/\ PipelineReturned(c)
        /\ composed.called /\ Cardinality(composed.videos) = 3
        /\ Cardinality(audio_files) = 3
        /\ composed.audio = mixed_audio_path /\ mixed_audio_path.ext = "mixed_wav"
        /\ ret[c] \notin {CompositionFailedMsg, MixFailedMsg, InternalErrorMsg("OSError")})
       => ret[c].tag = "path"

(* C11: the layout computation is total for every number of videos the
   composition is called with: one video gives one full-frame tile, two give
   two side-by-side tiles, more give a grid of ceil(sqrt(N)) columns and
   ceil(N/columns) rows with every input in a cell of its own inside the
   grid. *)
C11_LayoutTotal ==
    composed.called
    => LET n == Cardinality(composed.videos)
           l == Layout(n)
       IN  /\ ~l.raised
           /\ n = 1 => l.kind = "full" /\ Len(l.cells) = 1
           /\ n = 2 => l.kind = "hstack" /\ l.cells = << <<0, 0>>, <<1, 0>> >>
           /\ n > 2 =>
                /\ l.cols = CeilSqrt(n) /\ l.rows = CeilDiv(n, l.cols)
                /\ \A i \in 1..n : l.cells[i][1] < l.cols /\ l.cells[i][2] < l.rows
                /\ \A i, j \in 1..n : i # j => l.cells[i] # l.cells[j]

(* C12: when the composition timeout fires the composer is killed before stop
   waits for it again, and once the killed composer is reaped stop returns
   the composition failure: stop never waits after the timeout on a
   composer it has not killed. *)
C12_TimeoutKillsComposer ==
    [][/\ stopPc' = "reap" => composed'.proc = "killed"
       /\ (stopPc = "reap" /\ stopPc' # "reap")
          => stopPc' = "idle" /\ ret'[stopCall] = CompositionFailedMsg]_vars

\* a call got the composition failure after its composer was killed and reaped
C12_Witness ==
    \E c \in Calls : ret[c] = CompositionFailedMsg /\ composed.proc = "reaped"

(* C13: a track handed to add_audio_track or add_video_track while the
   state is not recording changes nothing: the registry and the recorder
   tasks stay as they are, no file is opened or written and no subprocess
   is spawned. *)
C13_IntakeWhileIdleIsNoop ==
    [][(\E c \in DOMAIN conns : conns'[c].stray # conns[c].stray)
       => UNCHANGED <<is_recording, active_recordings, tasks, disk, procs, now>>]_vars

\* an audio and a video track were both delivered while nothing was recording
C13_Witness ==
    /\ \E c \in DOMAIN conns : conns[c].stray.audio > 0
    /\ \E c \in DOMAIN conns : conns[c].stray.video > 0
    /\ tasks = <<>> /\ active_recordings = EmptyDict

(* C14: start_recording is idempotent: the call leaves the state recording,
   whether it was idle or recording already, and it leaves the registry,
   the recorder tasks, their subprocesses and the files as they are. *)
C14_StartIdempotent ==
    [][started' # started
       => /\ is_recording'
          /\ UNCHANGED <<active_recordings, tasks, procs, disk>>]_vars

\* start_recording was called again while a recorder was writing
C14_Witness ==
    /\ started >= 2 /\ is_recording
    /\ active_recordings # EmptyDict
    /\ \E i \in DOMAIN tasks : tasks[i].pc = "loop"

(* C15: more than one usable audio file is mixed by one mixer run, exactly
   one is used as it is with no mixer run, and a mixer that fails makes stop
   return a failure without calling the video composition. *)
C15_MixOrPassThrough ==
    [][/\ stopPc' = "mix"
          => /\ Cardinality(audio_files') > 1
             /\ mixed_audio_path' = NoFile /\ ~composed'.called
       /\ (Cardinality(audio_files') = 1 /\ stopPc' # "wait")
          => mixed_audio_path' \in audio_files' /\ stopPc' # "mix"
       /\ (stopPc = "mix" /\ stopPc' # "mix")
          => IF mixed_audio_path' = NoFile
             THEN /\ stopPc' = "idle" /\ ~composed'.called
                  /\ ret'[stopCall] \in {MixFailedMsg, InternalErrorMsg("OSError")}
             ELSE mixed_audio_path' = MixedFileName(now')]_vars

\* the mixer failed with video files at hand and no composition was started
C15_Witness ==
    \E c \in Calls :
       /\ ret[c] = MixFailedMsg
       /\ Cardinality(audio_files) > 1 /\ video_files # {}
       /\ ~composed.called

\* the step in which call c runs the partition of lines 63-76
Gathers(c) ==
    \/ botPc[c] = "sleep" /\ botPc'[c] # "sleep" /\ is_recording /\ stopPc' # "wait"
    \/ stopCall = c /\ stopPc = "wait" /\ stopPc' # "wait"

\* the files of one kind the registry names that are on disk above the floor
AboveFloor(audio, floor) ==
    {f \in DOMAIN disk :
       /\ disk[f] > floor
       /\ \E u \in DOMAIN active_recordings : \E k \in DOMAIN active_recordings[u] :
             (k.type = "audio") = audio /\ active_recordings[u][k].filename = f}

(* C16: the partition takes a recorded file only if it is on disk and larger
   than its floor, 44 bytes for audio and 1024 bytes for video; when no file
   of either kind is taken, stop returns the no-usable-media failure, runs
   no mixer and no composer and writes no file. *)
C16_PartitionByFloor ==
    [][\A c \in Calls :
          Gathers(c)
          => /\ audio_files' = AboveFloor(TRUE, AudioFloor)
             /\ video_files' = AboveFloor(FALSE, VideoFloor)
             /\ (audio_files' = {} /\ video_files' = {})
                => /\ ret'[c] = NoUsableMsg /\ stopPc' = "idle"
                   /\ ~composed'.called /\ mixed_audio_path' = NoFile
                   /\ disk' = disk]_vars

\* stop reported no usable media with a header-only audio file and a video
\* file of exactly 1024 bytes on disk
C16_Witness ==
    /\ \E c \in Calls : ret[c] = NoUsableMsg
    /\ \E f \in DOMAIN disk : f.ext = "wav" /\ disk[f] = AudioFloor
    /\ \E f \in DOMAIN disk : f.ext = "mkv" /\ disk[f] = VideoFloor

(* C17: on the path from the inbound-track callback to the registry key, a
   video track whose label says screen, display or share is a screenshare;
   one without such a label is a screenshare when the peer has a video
   recording already and a camera otherwise. *)
C17_LabelThenOrdinal ==
    \A u \in DOMAIN active_recordings : \A lbl \in AllLabels :
       LET t == ClassifyVideo(active_recordings, u, lbl, BotTrackType(lbl))
           hasVideo == \E k \in DOMAIN active_recordings[u] : k.type \in {"video", "camera"}
       IN  t = IF IsScreenLabel(lbl) \/ hasVideo THEN "screenshare" ELSE "camera"

\* the offers written to the transport for connection k
OffersFor(w, k) == Cardinality({i \in DOMAIN w : w[i] = Offer(k)})

(* C18: create_peer is idempotent: called for a peer id that has an entry it
   creates no connection, changes no entry and leaves no offer to send; so
   no connection ever has more than one offer on the wire, and each
   connection has exactly one once its create_peer call has sent it, unless
   the signaling connection was lost by then. *)
C18_CreatePeerIdempotent ==
    [][/\ (calls' # calls /\ last'.op = "create_peer" /\ last'.peer \in DOMAIN peers)
          => /\ last'.result = "existing"
             /\ UNCHANGED <<peers, conns, wire, handler>>
       /\ \A k \in DOMAIN conns' :
             /\ OffersFor(wire', k) <= 1
             /\ OffersFor(wire', k) = 0 => handler'.conn = k \/ ~is_connected']_vars

\* create_peer was called again for a peer whose connection got its one offer
C18_Witness ==
    /\ last.op = "create_peer" /\ last.result = "existing"
    /\ last.peer \in DOMAIN peers
    /\ \E k \in DOMAIN conns :
          conns[k].peer = last.peer /\ peers[last.peer] = k /\ OffersFor(wire, k) = 1

(* C19: handle_signal drops a signal whose sender has no entry in the peer
   map, and catches a malformed ICE candidate itself: in both cases nothing
   reaches the caller, the listen loop goes on, and the peer map and the
   connections are unchanged. *)
C19_SignalDroppedOrCaught ==
    [][(calls' # calls /\ last'.op = "handle_signal")
       => /\ last'.peer \notin DOMAIN peers
             => /\ last'.result = "dropped"
                /\ UNCHANGED <<peers, conns, listenPc, is_connected, wire, handler>>
          /\ (last'.peer \in DOMAIN peers /\ last'.action = "ice"
                /\ last'.payload \in {"malformed", "nondict"})
             => /\ last'.result = "ice_caught"
                /\ UNCHANGED <<peers, conns, listenPc, is_connected, wire, handler>>]_vars

(* C20: send never raises to its caller; it writes nothing when the
   transport is not open, and it changes nothing at all when no socket
   exists or the connected flag is false, that is before connect, after
   close, after the listen loop has ended and after a send that found the
   connection closed. *)
C20_SendNeverRaises ==
    [][(calls' # calls /\ last'.op = "send")
       => /\ last'.result # "raised"
          /\ ws # "open" => wire' = wire
          /\ (ws = "none" \/ ~is_connected)
             => /\ last'.result = "dropped"
                /\ UNCHANGED <<ws, is_connected, wire>>]_vars

\* a send after the listen loop had ended on a closed connection did nothing
C20_Witness ==
    /\ last.op = "send" /\ last.result = "dropped"
    /\ listenPc = "done" /\ ws = "closed"

(* C21: in listen an inbound message that fails to decode is skipped: the
   loop keeps waiting for the next message with the socket open, so that
   the messages that follow are dispatched, and the connected flag, the
   peers and the wire stay as they were. *)
C21_UndecodableSkipped ==
    [][(calls' # calls /\ last'.op = "decode")
       => /\ last'.result = "skipped"
          /\ listenPc' = "waiting"
          /\ UNCHANGED <<is_connected, peers, conns, wire>>]_vars

(* C22: no two outputs in the output directory share a filename: any two
   recorder tasks write to different files, also when their tracks arrived
   within the same clock second, and no per-track file bears the name of
   the mixed audio or of the final output. *)
C22_FilenamesDistinct ==
    /\ \A i, j \in DOMAIN tasks : i # j => tasks[i].file # tasks[j].file
    /\ \A i \in DOMAIN tasks, ts \in ClockValues :
          tasks[i].file \notin {MixedFileName(ts), FinalFileName(ts)}

(* C23: while stop_recording_and_compose mixes or composes, no recorder holds
   one of the input files open: no audio writer has a file of the audio
   list open, and every encoder subprocess whose output is in the video
   list has exited. *)
C23_NoWriterAtComposition ==
    stopPc \in {"mix", "compose"}
    => /\ \A i \in DOMAIN tasks :
             (tasks[i].kind = "audio" /\ tasks[i].open) => tasks[i].file \notin audio_files
       /\ \A n \in DOMAIN procs :
             procs[n].file \in video_files => procs[n].returncode # "none"

\* every entry of registry r2 is an entry of registry r1, unchanged
NoEntryWritten(r1, r2) ==
    \A u \in DOMAIN r2 : \A k \in DOMAIN r2[u] :
        u \in DOMAIN r1 /\ k \in DOMAIN r1[u] /\ r2[u][k] = r1[u][k]

(* C24: once stop has flipped the state to not-recording, no step adds an
   entry to the registry or replaces one: neither a track that arrives nor
   a recorder task that was already running. *)
C24_RegistryFrozenAfterStop ==
    [][(started > 0 /\ ~is_recording /\ ~is_recording')
       => NoEntryWritten(active_recordings, active_recordings')]_vars

(* C25: no exception escapes a recorder task: whatever happens to its track,
   its encoder or its registry entry, an audio writer or a video task comes
   to its end without an unhandled exception. *)
C25_NoRecorderCrashes ==
    \A i \in DOMAIN tasks : tasks[i].pc # "crashed"

(* C26: a video recorder task that has spawned its encoder and has ended,
   in whatever way, has closed the encoder's input pipe; and as long as the
   registry holds the entry of its track, the entry holds the process. *)
C26_EncoderPipeClosed ==
    \A i \in DOMAIN tasks :
        (tasks[i].kind = "video" /\ tasks[i].proc # 0)
        => /\ tasks[i].pc \in {"done", "crashed"}
                => procs[tasks[i].proc].stdin = "closed"
           /\ (tasks[i].user \in DOMAIN active_recordings
                /\ tasks[i].key \in DOMAIN active_recordings[tasks[i].user])
                => active_recordings[tasks[i].user][tasks[i].key].process = tasks[i].proc

(* C27: an audio writer that has opened its output file closes it on every
   way out (the track ends, a frame cannot be processed, the registry entry
   cannot be stored, the task is cancelled): a writer has its file open
   only while it is in its receive loop, and the step that takes it out of
   the loop is the one that closes the file. *)
C27_AudioFileClosed ==
    [][\A i \in DOMAIN tasks' :
          tasks'[i].kind = "audio"
          => /\ tasks'[i].open => tasks'[i].pc = "loop"
             /\ (i \in DOMAIN tasks /\ tasks[i].open /\ ~tasks'[i].open)
                => tasks[i].pc = "loop" /\ tasks'[i].pc = "done"]_vars

\* a writer cancelled in its loop on a live track has closed the file it wrote
C27_Witness ==
    \E i \in DOMAIN tasks :
        /\ tasks[i].kind = "audio" /\ tasks[i].pc = "done" /\ ~tasks[i].open
        /\ tasks[i].file \in DOMAIN disk
        /\ ~TrackEnded(i)

(* C28: every encoder subprocess that is running is referenced by an entry
   of the registry, through which stop can wait for it. *)
C28_EncoderInRegistry ==
    \A n \in DOMAIN procs :
        procs[n].returncode = "none" => n \in CollectProcesses(active_recordings)

(* C29: a track whose first frame does not arrive within the bounded wait is
   abandoned without recording anything: the step that times the task out
   creates no file, spawns no encoder and writes no registry entry; the
   task has ended holding no file and no process, so that stop has nothing
   of it to wait for; and a task waiting for the first frame of a live
   track never ends with an exception. *)
C29_FirstFrameTimeoutAbandons ==
    [][\A i \in DOMAIN tasks :
          /\ (tasks[i].pc = "first" /\ tasks'[i].pc = "timedout")
             => UNCHANGED <<disk, procs, active_recordings>>
          /\ tasks'[i].pc = "timedout"
             => /\ tasks'[i].proc = 0 /\ ~tasks'[i].open
                /\ tasks'[i].kind = "audio" =>
                      \/ tasks'[i].user \notin DOMAIN active_recordings'
                      \/ AudioKey \notin DOMAIN active_recordings'[tasks'[i].user]
                      \/ \E j \in DOMAIN tasks' : j # i /\ tasks'[j].user = tasks'[i].user
                                                  /\ tasks'[j].kind = "audio"
          /\ (tasks[i].pc = "first" /\ tasks'[i].pc = "crashed") => TrackEnded(i)]_vars

\* an audio and a video task have both timed out and stop has returned
C29_Witness ==
    /\ \E i, j \in DOMAIN tasks :
          /\ tasks[i].kind = "audio" /\ tasks[i].pc = "timedout"
          /\ tasks[j].kind = "video" /\ tasks[j].pc = "timedout"
          /\ tasks[i].file \notin DOMAIN disk /\ tasks[j].file \notin DOMAIN disk
    /\ procs = <<>>
    /\ \E c \in Calls : ret[c] = NoUsableMsg

(* C30: in the video write loop a frame that cannot be written, because the
   write fails or because the encoder's input pipe is broken or closing,
   ends the loop: no video task that received a frame it did not write is
   still in the loop, waiting for the next one. *)
C30_WriteFailureEndsLoop ==
    \A i \in DOMAIN tasks :
        (tasks[i].kind = "video" /\ tasks[i].frames > 0) => tasks[i].pc # "loop"

\* no entry of the peer map refers to connection k
NoEntry(k) == \A p \in DOMAIN peers : peers[p] # k

(* C31: a connection whose state has become failed, closed or disconnected
   is eventually closed and without an entry in the peer map. *)
C31_TerminalConnectionRemoved ==
    \A k \in 1..MaxConns :
        (k \in DOMAIN conns /\ conns[k].state \in Terminal)
        ~> (k \in DOMAIN conns /\ conns[k].state = "closed" /\ NoEntry(k))

\* the position of a state in the lifecycle new, connecting, connected, terminal
Rank(state) ==
    CASE state = "new" -> 0
      [] state = "connecting" -> 1
      [] state = "connected" -> 2
      [] OTHER -> 3

(* C32, as stated: each of the terminal states failed, disconnected and
   closed is absorbing: a connection in one of them is never moved to a
   different state. *)
C32_EachTerminalAbsorbing ==
    [][\A k \in DOMAIN conns :
          conns[k].state \in Terminal => conns'[k].state = conns[k].state]_vars

(* C32, amended: the lifecycle only moves forward along new, connecting,
   connected, terminal; the terminal states are absorbing as a class and
   closed is absorbing by itself, while a failed or disconnected
   connection is moved to closed by the close() of the state-change
   handler or of stop_and_cleanup, and to no other state. *)
C32_ForwardAndClosedAbsorbing ==
    [][\A k \in DOMAIN conns :
          /\ Rank(conns'[k].state) >= Rank(conns[k].state)
          /\ conns[k].state = "closed" => conns'[k].state = "closed"
          /\ conns[k].state \in {"failed", "disconnected"}
                => conns'[k].state \in {conns[k].state, "closed"}]_vars

\* the handler of a failed connection has called close() on it and is
\* suspended in that call
C32_Witness ==
    \E k \in DOMAIN conns :
        /\ conns[k].state = "closed"
        /\ [conn |-> k, pc |-> "closing"] \in events
        /\ conns[k].peer \in DOMAIN peers /\ peers[conns[k].peer] = k

(* C33: the step of stop_recording_and_compose that clears the registry
   is the step that runs the partition, on the registry as it is at that
   moment: every entry present when the registry is cleared has had its
   filename examined, and the captured lists are exactly the usable files
   of the cleared registry. *)
C33_ClearedAfterCapture ==
    [][(active_recordings # EmptyDict /\ active_recordings' = EmptyDict)
          => /\ audio_files' = UsableAudio(active_recordings, disk)
             /\ video_files' = UsableVideo(active_recordings, disk)]_vars

\* a stop has cleared a registry from which it captured audio and video
C33_Witness ==
    /\ ~is_recording
    /\ active_recordings = EmptyDict
    /\ audio_files # {} /\ video_files # {}

(* C34: at most one connection that is not closed exists per peer id, and
   a run of the state-change handler registered for connection k changes
   no connection other than k and removes no map entry other than the one
   that points to k. *)
C34_HandlerOwnsItsConnection ==
    [][/\ \A j \in DOMAIN conns' : \A k \in DOMAIN conns' :
             (j # k /\ conns'[j].peer = conns'[k].peer)
                => (conns'[j].state = "closed" \/ conns'[k].state = "closed")
       /\ \A e \in events \ events' :
             /\ \A k \in DOMAIN conns : k # e.conn => conns'[k] = conns[k]
             /\ \A p \in DOMAIN peers \ DOMAIN peers' : peers[p] = e.conn]_vars

(* C35: from the moment stop_and_cleanup has closed the peer connections
   and cleared the peer map until it returns, no peer connection is
   created and no recorder task is started, and at its return the peer
   map is empty and no recorder task or encoder subprocess is running. *)
C35_QuietShutdown ==
    [][\A c \in Calls :
          /\ botPc[c] \in {"sleep", "stop", "notify"}
                => Len(conns') = Len(conns) /\ Len(tasks') = Len(tasks)
          /\ (botPc[c] = "notify" /\ botPc'[c] = "done")
                => /\ peers' = EmptyDict
                   /\ \A i \in DOMAIN tasks' :
                          tasks'[i].pc \notin {"first", "spawn", "loop"}
                   /\ \A n \in DOMAIN procs' : procs'[n].returncode # "none"]_vars

\* call c has passed the flag check and entered the pipeline
RanPipeline(c) ==
    \/ botPc[c] = "stop"
    \/ ret[c] \notin {NoResult, NotRecordingMsg}

(* C36: of the calls of stop_recording_and_compose made for one session,
   concurrent or repeated, at most one passes the flag check and runs the
   drain/mix/compose/cleanup pipeline; a pipeline in progress belongs to
   that call, and every other call that has returned got the 'not
   recording' result. *)
C36_PipelineRunsOnce ==
    /\ \A c \in Calls : \A d \in Calls :
          (c # d /\ RanPipeline(c)) => ~RanPipeline(d)
    /\ \A c \in Calls : botPc[c] = "stop" => stopCall = c /\ stopPc # "idle"
    /\ \A c \in Calls :
          (botPc[c] \in {"notify", "done"} /\ ~RanPipeline(c)) => ret[c] = NotRecordingMsg

\* a second call returned 'not recording' while the first call's pipeline
\* was still waiting for the encoders
C36_Witness ==
    \E c \in Calls : \E d \in Calls :
        /\ c # d
        /\ botPc[c] = "stop" /\ stopPc = "wait"
        /\ ret[d] = NotRecordingMsg

(* C37: whenever the manager is not recording and no call of
   stop_recording_and_compose is in progress, the registry of active
   recordings is empty. *)
C37_IdleRegistryEmpty ==
    (~is_recording /\ stopPc = "idle") => active_recordings = EmptyDict

\* a stop has completed and a video task left over from the session has
\* spawned its encoder afterwards: storing the entry raised KeyError
C37_Witness ==
    /\ ~is_recording /\ stopPc = "idle"
    /\ \E c \in Calls : RanPipeline(c) /\ botPc[c] \in {"notify", "done"}
    /\ \E i \in DOMAIN tasks :
          tasks[i].kind = "video" /\ tasks[i].pc = "crashed" /\ tasks[i].proc # 0
    /\ active_recordings = EmptyDict

(* C38: when stop partitions the files, every audio file that an audio
   writer of the session has opened is named by an entry of the
   registry. *)
C38_AudioFilesReferenced ==
    [][\A c \in Calls :
          Gathers(c) =>
              \A i \in DOMAIN tasks :
                  (tasks[i].kind = "audio" /\ tasks[i].file \in DOMAIN disk)
                      => \E e \in Entries(active_recordings) :
                             e[2].filename = tasks[i].file]_vars

(* C39: when the callback raises while handling an inbound message, the
   exception ends the listen loop without leaving listen(): the loop is
   over, the connected flag is false and stays false, every later send
   writes nothing, and no further roster or signal message is handled. *)
C39_CallbackRaiseEndsListen ==
    [][/\ (calls' # calls /\ last'.op = "handle_signal" /\ last'.result = "raised")
             => listenPc' = "done"
       /\ listenPc' = "done" => ~is_connected'
       /\ listenPc = "done"
             => /\ listenPc' = "done"
                /\ wire' = wire
                /\ Len(conns') = Len(conns)
                /\ calls' # calls
                      => \/ last'.op = "send" /\ last'.result = "dropped"
                         \/ last'.op = "create_peer" /\ last'.result = "existing"]_vars

\* an answer with a malformed payload has raised in handle_signal: the
\* loop is over and the flag is false although the socket is still open
C39_Witness ==
    /\ listenPc = "done" /\ ws = "open" /\ ~is_connected
    /\ last.op = "handle_signal" /\ last.action = "answer"
    /\ last.payload = "malformed" /\ last.result = "raised"

(* ------------------- the control plane and one bot -------------------- *)
\* the room id of the requests; the model follows the first bot created
\* for it
Room == "room"

\* the recording_update with is_recording True that connect_and_record sends
RecordingStarted == [type |-> "recording_started", conn |-> 0]

\* POST /start-recording: 409 when the room is tracked; else the bot is
\* created and tracked, connect_and_record becomes a task and the route
\* sleeps two seconds
StartRoute ==
    IF Room \in active_bots
    THEN UNCHANGED vars
    ELSE /\ routePc.connect = "none"
         /\ active_bots' = active_bots \cup {Room}
         /\ routePc' = [start |-> "sleep", connect |-> "connecting"]
         /\ UNCHANGED <<is_recording, active_recordings, disk, now, botVars, stopVars,
                        recVars, ws, is_connected, listenPc, handler, wire, calls, last,
                        events>>

\* connect_and_record: signaling.connect() returns or raises; after a
\* success the listen task is created and the task sleeps one second
BotConnect(ok) ==
    /\ routePc.connect = "connecting"
    /\ IF ok
       THEN ws' = "open" /\ is_connected' = TRUE /\ listenPc' = "waiting"
       ELSE ws' = ws /\ is_connected' = FALSE /\ listenPc' = "never"
    /\ routePc' = [routePc EXCEPT !.connect = IF ok THEN "sleep" ELSE "failed"]
    /\ UNCHANGED <<is_recording, active_recordings, disk, now, botVars, stopVars, recVars,
                   handler, wire, calls, last, events, active_bots>>

\* /start-recording after its sleep: the bot is untracked and 500 reported
\* unless bot.is_connected()
StartRouteWake ==
    /\ routePc.start = "sleep"
    /\ IF is_connected
       THEN /\ routePc' = [routePc EXCEPT !.start = "ok"]
            /\ active_bots' = active_bots
       ELSE /\ routePc' = [routePc EXCEPT !.start = "failed"]
            /\ active_bots' = active_bots \ {Room}
    /\ UNCHANGED <<is_recording, active_recordings, disk, now, botVars, stopVars, recVars,
                   ws, is_connected, listenPc, handler, wire, calls, last, events>>

\* connect_and_record after its sleep: start_recording, then the
\* recording_update is handed to send
ConnectWake ==
    /\ routePc.connect = "sleep"
    /\ is_recording' = start_recording(is_recording)
    /\ started' = 1
    /\ LET r == SendResult(ws, is_connected)
       IN  /\ wire' = SendWire(wire, RecordingStarted, r)
           /\ is_connected' = SendFlag(is_connected, r)
    /\ routePc' = [routePc EXCEPT !.connect = "done"]
    /\ UNCHANGED <<active_recordings, disk, now, peers, conns, botPc, ret, stopVars,
                   recVars, ws, listenPc, handler, calls, last, events, active_bots>>

\* POST /stop-recording for a tracked room: stop_and_cleanup up to its sleep
StopRoute(c) ==
    /\ Room \in active_bots
    /\ BotCloseAll(c)

\* stop_and_cleanup after stop_recording_and_compose: the guarded send and
\* close; then /stop-recording untracks the bot and returns
StopRouteFinish(c) ==
    /\ botPc[c] = "notify"
    /\ LET r == SendResult(ws, is_connected)
           flag == SendFlag(is_connected, r)
       IN  /\ wire' = IF is_connected THEN SendWire(wire, RecordingUpdate, r) ELSE wire
           /\ ws' = IF ws # "none" /\ flag THEN "closed" ELSE ws
           /\ is_connected' = IF flag THEN FALSE ELSE flag
    /\ botPc' = [botPc EXCEPT ![c] = "done"]
    /\ active_bots' = active_bots \ {Room}
    /\ UNCHANGED <<is_recording, active_recordings, disk, now, peers, conns, started, ret,
                   stopVars, recVars, listenPc, handler, calls, last, events, routePc>>

ControlNext ==
    \/ StartRoute
    \/ \E ok \in BOOLEAN : BotConnect(ok)
    \/ StartRouteWake
    \/ ConnectWake
    \/ TransportClosed
    \/ ListenEnds
    \/ \E c \in Calls : StopRoute(c)
    \/ \E c \in Calls : StopCall(c)
    \/ \E c \in Calls : StopRouteFinish(c)

ControlSpec == Init /\ [][ControlNext]_vars

(* C40: at most one bot is tracked per room id, and once a bot has been
   untracked, by the failure report of /start-recording or by the return
   of /stop-recording, its connect_and_record task never sets the
   recorder to recording and never announces is_recording=true. *)
C40_UntrackedNeverRecording ==
    [][/\ Cardinality(active_bots') <= 1
       /\ (Room \notin active_bots /\ routePc.connect # "none")
             => /\ is_recording' => is_recording
                /\ ~(/\ Len(wire') > Len(wire)
                      /\ wire'[Len(wire')] = RecordingStarted)]_vars
====
